---- MODULE Spec2Model ----
(***************************************************************************)
(* Model of workflowstorageservice: the semantic action endpoint            *)
(* (handleSemanticAction, handleSemanticStoreImpl,                          *)
(* handleSemanticRetrieveImpl), the legacy endpoints (handleStore,          *)
(* handleFetch), the S3 bucket behind s3Client and the local file system    *)
(* the retrieve handler writes to.                                          *)
(*                                                                          *)
(* Go strings that the code slices, splits, joins or measures are modelled  *)
(* as sequences of one-character strings, so that fmt.Sprintf is            *)
(* concatenation, len is Len and strings.Split / strings.Join are computed. *)
(* Strings that are only compared (action types, content types, messages)   *)
(* are TLA+ strings.                                                        *)
(*                                                                          *)
(* A handler runs atomically between two external calls: one action takes   *)
(* a request up to its PutObject / GetObject call, the next ones are the    *)
(* return of that call, os.MkdirAll and os.WriteFile.                       *)
(***************************************************************************)
EXTENDS Integers, Sequences, FiniteSets, TLC

\* ------------------------------------------------------------------------
\* Bounds of the model
\* ------------------------------------------------------------------------

\* requests served in one behaviour
MaxRequests == 3

\* ------------------------------------------------------------------------
\* String constants of the source
\* ------------------------------------------------------------------------

EmptyStr == <<>>

Slash == "/"

\* "s3://"
S3Scheme == <<"s", "3", ":", "/", "/">>

\* "px-semantic"
DefaultBucket == <<"p", "x", "-", "s", "e", "m", "a", "n", "t", "i", "c">>

\* "default"
DefaultWorkflowID == <<"d", "e", "f", "a", "u", "l", "t">>

\* "workflow-results/"
KeyPrefix == <<"w", "o", "r", "k", "f", "l", "o", "w", "-",
               "r", "e", "s", "u", "l", "t", "s", "/">>

\* ".json"
KeySuffix == <<".", "j", "s", "o", "n">>

\* "/tmp/"
TmpPrefix == <<"/", "t", "m", "p", "/">>

\* "-result.dat"
ResultSuffix == <<"-", "r", "e", "s", "u", "l", "t", ".", "d", "a", "t">>

DefaultFormat == "application/json"

\* ------------------------------------------------------------------------
\* Pure functions
\* ------------------------------------------------------------------------

\* Key with the namespace and the identifier in each other's place: a variant
\* the key layout property has to reject
KeySwapped(workflowID, identifier) ==
    KeyPrefix \o identifier \o <<Slash>> \o workflowID \o KeySuffix

\* fmt.Sprintf("workflow-results/%s/%s.json", workflowID, identifier)
Key(workflowID, identifier) ==
    KeyPrefix \o workflowID \o <<Slash>> \o identifier \o KeySuffix

\* fmt.Sprintf("s3://%s/%s", bucket, key)
ContentUrl(bucket, key) == S3Scheme \o bucket \o <<Slash>> \o key

\* bucket := os.Getenv("HETZNER_S3_BUCKET"); if bucket == "" { bucket = "px-semantic" }
BucketOf(env) == IF env = EmptyStr THEN DefaultBucket ELSE env

\* workflowID := Header.Get("X-Workflow-ID"); if workflowID == "" { workflowID = "default" }
WorkflowIDOf(header) == IF header = EmptyStr THEN DefaultWorkflowID ELSE header

\* FormatOf without the default: a variant the store-defaults property has to
\* reject
FormatOfNoDefault(encodingFormat) == encodingFormat

\* format = action.Object.EncodingFormat; if format == "" { format = "application/json" }
FormatOf(encodingFormat) == IF encodingFormat = "" THEN DefaultFormat ELSE encodingFormat


\* strings.Split(s, "/"): the pieces of s between separators, at least one
RECURSIVE SplitFrom(_, _, _)
SplitFrom(s, i, cur) ==
    IF i > Len(s) THEN <<cur>>
    ELSE IF s[i] = Slash THEN <<cur>> \o SplitFrom(s, i + 1, <<>>)
    ELSE SplitFrom(s, i + 1, Append(cur, s[i]))

Split(s) == SplitFrom(s, 1, <<>>)

\* strings.Join(parts, "/")
RECURSIVE Join(_)
Join(parts) ==
    IF Len(parts) = 0 THEN <<>>
    ELSE IF Len(parts) = 1 THEN parts[1]
    ELSE parts[1] \o <<Slash>> \o Join(Tail(parts))

\* HasS3Scheme that checks the length only: a variant the scheme property has
\* to reject
HasS3SchemeLengthOnly(contentURL) == ~ (Len(contentURL) < 6)

\* len(contentURL) < 6 || contentURL[:5] != "s3://"
HasS3Scheme(contentURL) ==
    ~ (Len(contentURL) < 6 \/ SubSeq(contentURL, 1, 5) # S3Scheme)

\* parts := strings.Split(contentURL[5:], "/")
LocationParts(contentURL) == Split(SubSeq(contentURL, 6, Len(contentURL)))

\* KeyOfParts that drops the first key segment too (parts[2:]): a variant the
\* round trip has to reject
KeyOfPartsShort(parts) == Join(Tail(Tail(parts)))

\* key := strings.Join(parts[1:], "/")
KeyOfParts(parts) == Join(Tail(parts))

\* fmt.Sprintf("/tmp/%s-result.dat", action.Identifier)
DefaultOutputFile(identifier) == TmpPrefix \o identifier \o ResultSuffix

\* index of the last "/" of path, 0 when there is none
RECURSIVE LastSlash(_, _)
LastSlash(path, i) ==
    IF i = 0 THEN 0
    ELSE IF path[i] = Slash THEN i
    ELSE LastSlash(path, i - 1)

\* filepath.Clean restricted to paths without "." and ".." elements:
\* runs of separators collapse to one and a trailing separator is dropped
RECURSIVE Clean(_)
Clean(path) ==
    IF Len(path) = 0 THEN <<".">>
    ELSE IF Len(path) = 1 THEN path
    ELSE IF path[Len(path)] = Slash
         THEN Clean(SubSeq(path, 1, Len(path) - 1))
    ELSE IF \E i \in 1..(Len(path) - 1) : path[i] = Slash /\ path[i + 1] = Slash
         THEN LET i == CHOOSE j \in 1..(Len(path) - 1) :
                           path[j] = Slash /\ path[j + 1] = Slash
              IN  Clean(SubSeq(path, 1, i) \o SubSeq(path, i + 2, Len(path)))
    ELSE path

\* filepath.Dir(outputFile)
Dir(path) == Clean(SubSeq(path, 1, LastSlash(path, Len(path))))

\* the directories os.MkdirAll(dir) makes sure exist: dir and its ancestors
Ancestors(dir) ==
    {dir} \cup {Clean(SubSeq(dir, 1, i)) : i \in {j \in 1..Len(dir) : dir[j] = Slash}}


\* ------------------------------------------------------------------------
\* Requests, responses and the state
\* ------------------------------------------------------------------------

\* the goroutines that serve requests
Handlers == {1, 2}

\* Registry with UpdateAction registered as a store: a variant the dispatch
\* property has to reject
RegistryWithUpdate ==
    [UploadAction   |-> "handleSemanticStore",
     CreateAction   |-> "handleSemanticStore",
     StoreAction    |-> "handleSemanticStore",
     UpdateAction   |-> "handleSemanticStore",
     DownloadAction |-> "handleSemanticRetrieve",
     RetrieveAction |-> "handleSemanticRetrieve",
     FetchAction    |-> "handleSemanticRetrieve"]

\* semantic.MustRegister(type, handler): the action registry set up by main
Registry ==
    [UploadAction   |-> "handleSemanticStore",
     CreateAction   |-> "handleSemanticStore",
     StoreAction    |-> "handleSemanticStore",
     DownloadAction |-> "handleSemanticRetrieve",
     RetrieveAction |-> "handleSemanticRetrieve",
     FetchAction    |-> "handleSemanticRetrieve"]

\* action.Object == nil
NilObject ==
    [isNil |-> TRUE, Text |-> EmptyStr, ContentUrl |-> EmptyStr, EncodingFormat |-> ""]

\* a value of action.Properties: a JSON string, a JSON value of another type,
\* or no entry under that name
PropString(s) == [kind |-> "string", str |-> s]
PropOther == [kind |-> "other", str |-> EmptyStr]
PropAbsent == [kind |-> "absent", str |-> EmptyStr]

\* of, ok := action.Properties[name].(string): the string when ok, else ""
AsString(prop) == IF prop.kind = "string" THEN prop.str ELSE EmptyStr

\* a request body that semantic.ParseSemanticAction rejects: kind is
\* "invalid" (not JSON) or "empty"
RawBody(kind) ==
    [kind |-> kind, type |-> "", identifier |-> EmptyStr, object |-> NilObject,
     outputFile |-> PropAbsent, outputType |-> PropAbsent]

\* the body of a legacy request: StoreRequest, or the :key path parameter
NoLegacy ==
    [WorkflowID |-> EmptyStr, ActionID |-> EmptyStr, Data |-> EmptyStr,
     Format |-> "", key |-> EmptyStr]

\* req.Definition == nil; a definition that is not nil is a map, a set of
\* <<key, value>> pairs with one pair a key
NilDefinition == [isNil |-> TRUE, entries |-> {}]

\* the request of a REST endpoint: the method, whether c.Bind accepts the
\* body, the :id parameter or the id of the body, the definition and the
\* format of the body, the bucket query parameter
NoRest ==
    [method |-> "", bound |-> TRUE, id |-> EmptyStr, definition |-> NilDefinition,
     format |-> "", bucket |-> EmptyStr]

\* action.Result == nil
NoResult == [Type |-> "", Format |-> "", Output |-> EmptyStr, Value |-> <<>>]

NoResponse == [status |-> "none", msg |-> "", result |-> NoResult]

\* semantic.ReturnActionError(c, action, msg, err), and the c.JSON error
\* responses of the legacy handlers
Failed(msg) == [status |-> "failed", msg |-> msg, result |-> NoResult]

\* semantic.SetSuccessOnAction(action); c.JSON(http.StatusOK, action)
Completed(result) == [status |-> "completed", msg |-> "", result |-> result]

\* a handler with no request
Idle ==
    [pc |-> "idle", endpoint |-> "", body |-> RawBody("none"), header |-> EmptyStr,
     legacy |-> NoLegacy, rest |-> NoRest,
     bucket |-> EmptyStr, key |-> EmptyStr, data |-> EmptyStr, format |-> "",
     outputFile |-> EmptyStr, err |-> "", resp |-> NoResponse,
     puts |-> 0, gets |-> 0, mkdirs |-> 0, writes |-> 0]

\* a request as the router hands it to its handler
NewRequest(endpoint, body, header, legacy) ==
    [Idle EXCEPT !.pc = "received", !.endpoint = endpoint, !.body = body,
                 !.header = header, !.legacy = legacy]

\* Fail that sets the error response and does not return: a variant the
\* request state machine has to reject
FailWithoutReturn(r, msg) == [r EXCEPT !.resp = Failed(msg)]

\* the handler returns with an error response
Fail(r, msg) == [r EXCEPT !.pc = "done", !.resp = Failed(msg)]

\* an external call has returned the error err, and the handler returns with
\* an error response
FailWith(r, err, msg) == Fail([r EXCEPT !.err = err], msg)

VARIABLES
    bucketEnv,   \* the environment variable HETZNER_S3_BUCKET
    s3Client,    \* the objects behind s3Client: <<bucket, key>> -> [Body, ContentType]
    files,       \* the local files: path -> content
    dirs,        \* the local directories that exist
    reqs,        \* per handler, the request it is serving
    located,     \* history: contentUrl of a put -> what the last put applied there
                 \* wrote, the handler that issued it, and what it replaced
    served       \* number of requests received so far

vars == <<bucketEnv, s3Client, files, dirs, reqs, located, served>>

\* the bucket every handler uses
Bucket == BucketOf(bucketEnv)

\* ------------------------------------------------------------------------
\* The handlers up to their first external call
\* ------------------------------------------------------------------------

\* handleSemanticStoreImpl without the check for empty data: a variant the
\* no-data property has to reject
handleSemanticStoreImplNoDataCheck(r) ==
    LET workflowID == WorkflowIDOf(r.header)
        object == r.body.object
    IN  IF object.isNil THEN Fail(r, "object is required")
        ELSE IF object.Text = EmptyStr /\ object.ContentUrl # EmptyStr
             THEN Fail(r, "fetching from contentUrl not yet implemented")
        ELSE [r EXCEPT !.pc = "put",
                       !.bucket = Bucket,
                       !.key = Key(workflowID, r.body.identifier),
                       !.data = object.Text,
                       !.format = FormatOf(object.EncodingFormat)]

\* handleSemanticStoreImpl that looks at contentUrl before text: a variant
\* the content-location property has to reject
handleSemanticStoreImplUrlFirst(r) ==
    LET workflowID == WorkflowIDOf(r.header)
        object == r.body.object
    IN  IF object.isNil THEN Fail(r, "object is required")
        ELSE IF object.ContentUrl # EmptyStr
             THEN Fail(r, "fetching from contentUrl not yet implemented")
        ELSE IF object.Text = EmptyStr THEN Fail(r, "no data to store")
        ELSE [r EXCEPT !.pc = "put",
                       !.bucket = Bucket,
                       !.key = Key(workflowID, r.body.identifier),
                       !.data = object.Text,
                       !.format = FormatOf(object.EncodingFormat)]

\* handleSemanticStoreImpl up to s3Client.PutObject
handleSemanticStoreImpl(r) ==
    LET workflowID == WorkflowIDOf(r.header)
        object == r.body.object
    IN  IF object.isNil THEN Fail(r, "object is required")
        ELSE IF object.Text = EmptyStr /\ object.ContentUrl # EmptyStr
             THEN Fail(r, "fetching from contentUrl not yet implemented")
        ELSE LET data == object.Text
                 format == FormatOf(object.EncodingFormat)
             IN  IF data = EmptyStr THEN Fail(r, "no data to store")
                 ELSE [r EXCEPT !.pc = "put",
                                !.bucket = Bucket,
                                !.key = Key(workflowID, r.body.identifier),
                                !.data = data,
                                !.format = format]

\* handleSemanticRetrieveImpl that goes to the output file before the get
\* when the data is to go to a file: a variant the step-order property has
\* to reject
handleSemanticRetrieveImplFileFirst(r) ==
    LET object == r.body.object
        contentURL == object.ContentUrl
        outputFile == IF AsString(r.body.outputFile) # EmptyStr
                      THEN AsString(r.body.outputFile)
                      ELSE DefaultOutputFile(r.body.identifier)
    IN  IF object.isNil THEN Fail(r, "object is required")
        ELSE IF contentURL = EmptyStr
             THEN Fail(r, "object.contentUrl is required (resource s3:// location)")
        ELSE IF ~ HasS3Scheme(contentURL)
             THEN Fail(r, "only s3:// URLs supported")
        ELSE LET parts == LocationParts(contentURL)
             IN  IF Len(parts) < 2 THEN Fail(r, "invalid s3 URL format")
                 ELSE IF AsString(r.body.outputFile) # EmptyStr
                         \/ r.body.outputType = PropString("file")
                      THEN [r EXCEPT !.pc = "mkdir", !.bucket = Bucket,
                                     !.key = KeyOfParts(parts),
                                     !.outputFile = outputFile]
                 ELSE [r EXCEPT !.pc = "get", !.bucket = Bucket,
                                !.key = KeyOfParts(parts)]

\* handleSemanticRetrieveImpl that refuses a location whose key is not the
\* one its own header and identifier derive: a variant the no-revalidation
\* property has to reject
handleSemanticRetrieveImplRevalidating(r) ==
    LET object == r.body.object
        contentURL == object.ContentUrl
    IN  IF object.isNil THEN Fail(r, "object is required")
        ELSE IF contentURL = EmptyStr
             THEN Fail(r, "object.contentUrl is required (resource s3:// location)")
        ELSE IF ~ HasS3Scheme(contentURL)
             THEN Fail(r, "only s3:// URLs supported")
        ELSE LET parts == LocationParts(contentURL)
             IN  IF Len(parts) < 2 THEN Fail(r, "invalid s3 URL format")
                 ELSE IF KeyOfParts(parts)
                             # Key(WorkflowIDOf(r.header), r.body.identifier)
                      THEN Fail(r, "identifier does not match location")
                 ELSE [r EXCEPT !.pc = "get", !.bucket = Bucket,
                                !.key = KeyOfParts(parts)]

\* handleSemanticRetrieveImpl that asks for two segments after the bucket
\* (len(parts) < 3): a variant the location-parsing property has to reject
handleSemanticRetrieveImplTwoSegments(r) ==
    LET object == r.body.object
        contentURL == object.ContentUrl
    IN  IF object.isNil THEN Fail(r, "object is required")
        ELSE IF contentURL = EmptyStr
             THEN Fail(r, "object.contentUrl is required (resource s3:// location)")
        ELSE IF ~ HasS3Scheme(contentURL)
             THEN Fail(r, "only s3:// URLs supported")
        ELSE LET parts == LocationParts(contentURL)
             IN  IF Len(parts) < 3 THEN Fail(r, "invalid s3 URL format")
                 ELSE [r EXCEPT !.pc = "get", !.bucket = Bucket,
                                !.key = KeyOfParts(parts)]

\* handleSemanticRetrieveImpl up to s3Client.GetObject
handleSemanticRetrieveImpl(r) ==
    LET object == r.body.object
        contentURL == object.ContentUrl
    IN  IF object.isNil THEN Fail(r, "object is required")
        ELSE IF contentURL = EmptyStr
             THEN Fail(r, "object.contentUrl is required (resource s3:// location)")
        ELSE IF ~ HasS3Scheme(contentURL)
             THEN Fail(r, "only s3:// URLs supported")
        ELSE LET parts == LocationParts(contentURL)
             IN  IF Len(parts) < 2 THEN Fail(r, "invalid s3 URL format")
                 ELSE [r EXCEPT !.pc = "get", !.bucket = Bucket,
                                !.key = KeyOfParts(parts)]

\* semantic.Handle(c, action): the handler registered for the action's type
Handle(r) ==
    IF r.body.type \notin DOMAIN Registry
    THEN Fail(r, "no handler registered for action type")
    ELSE IF Registry[r.body.type] = "handleSemanticStore"
         THEN handleSemanticStoreImpl(r)
         ELSE handleSemanticRetrieveImpl(r)

\* handleSemanticAction: parse the body, dispatch on the action type
handleSemanticAction(r) ==
    IF r.body.kind # "json" THEN Fail(r, "Failed to parse semantic action")
    ELSE Handle(r)

\* handleStore (legacy POST /v1/api/store) up to s3Client.PutObject
handleStore(r) ==
    LET req == r.legacy
    IN  IF req.WorkflowID = EmptyStr \/ req.ActionID = EmptyStr \/ req.Data = EmptyStr
        THEN Fail(r, "workflowId, actionId, and data are required")
        ELSE [r EXCEPT !.pc = "put",
                       !.bucket = Bucket,
                       !.key = Key(req.WorkflowID, req.ActionID),
                       !.data = req.Data,
                       !.format = FormatOf(req.Format)]

\* handleFetch (legacy GET /v1/api/fetch/:key) up to s3Client.GetObject
handleFetch(r) ==
    IF r.legacy.key = EmptyStr THEN Fail(r, "key is required")
    ELSE [r EXCEPT !.pc = "get", !.bucket = Bucket, !.key = r.legacy.key]

\* the keys of a map in the order json.Marshal writes them: sorted
SortedKeys == <<"a", "b">>

\* json.Marshal of a map[string]interface{} with string values, the entries
\* between the braces
RECURSIVE MarshalEntries(_, _)
MarshalEntries(entries, keys) ==
    IF keys = <<>> THEN <<>>
    ELSE LET k == Head(keys)
             rest == MarshalEntries(entries, Tail(keys))
         IN  IF \E e \in entries : e[1] = k
             THEN LET v == (CHOOSE e \in entries : e[1] = k)[2]
                  IN  <<"\"", k, "\"", ":", "\"", v, "\"">>
                      \o (IF rest = <<>> THEN <<>> ELSE <<",">> \o rest)
             ELSE rest

\* definitionJSON, err := json.Marshal(req.Definition)
Marshal(definition) ==
    <<"{">> \o MarshalEntries(definition.entries, SortedKeys) \o <<"}">>

\* fmt.Sprintf("s3://%s/workflow-results/default/%s.json", bucket, id), with
\* bucket := c.QueryParam("bucket"); if bucket == "" { bucket = "px-semantic" }
RestS3URL(bucketParam, id) ==
    S3Scheme \o (IF bucketParam = EmptyStr THEN DefaultBucket ELSE bucketParam)
    \o <<Slash>> \o KeyPrefix \o DefaultWorkflowID \o <<Slash>> \o id \o KeySuffix

\* callSemanticHandler: the action takes the place of the body of the
\* request, headers kept, and goes to handleSemanticAction; the JSON written
\* by json.Marshal(action) is read back into the same fields
callSemanticHandler(r, action) == handleSemanticAction([r EXCEPT !.body = action])

\* storeWorkflowREST (POST /v1/api/workflows)
storeWorkflowREST(r) ==
    LET req == r.rest
    IN  IF ~ req.bound THEN Fail(r, "Invalid request")
        ELSE IF req.id = EmptyStr THEN Fail(r, "id is required")
        ELSE IF req.definition.isNil THEN Fail(r, "definition is required")
        ELSE callSemanticHandler(r,
                 [kind |-> "json", type |-> "CreateAction", identifier |-> req.id,
                  object |-> [isNil |-> FALSE, Text |-> Marshal(req.definition),
                              ContentUrl |-> EmptyStr,
                              EncodingFormat |-> IF req.format = ""
                                                 THEN "application/json"
                                                 ELSE req.format],
                  outputFile |-> PropAbsent, outputType |-> PropAbsent])

\* getWorkflowREST (GET /v1/api/workflows/:id)
getWorkflowREST(r) ==
    LET req == r.rest
    IN  IF req.id = EmptyStr THEN Fail(r, "id is required")
        ELSE callSemanticHandler(r,
                 [kind |-> "json", type |-> "RetrieveAction", identifier |-> req.id,
                  object |-> [isNil |-> FALSE, Text |-> EmptyStr,
                              ContentUrl |-> RestS3URL(req.bucket, req.id),
                              EncodingFormat |-> ""],
                  outputFile |-> PropAbsent, outputType |-> PropAbsent])

\* updateWorkflowREST (PUT /v1/api/workflows/:id)
updateWorkflowREST(r) ==
    LET req == r.rest
    IN  IF req.id = EmptyStr THEN Fail(r, "id is required")
        ELSE IF ~ req.bound THEN Fail(r, "Invalid request")
        ELSE IF req.definition.isNil THEN Fail(r, "definition is required")
        ELSE callSemanticHandler(r,
                 [kind |-> "json", type |-> "UpdateAction", identifier |-> req.id,
                  object |-> [isNil |-> FALSE, Text |-> Marshal(req.definition),
                              ContentUrl |-> EmptyStr,
                              EncodingFormat |-> IF req.format = ""
                                                 THEN "application/json"
                                                 ELSE req.format],
                  outputFile |-> PropAbsent, outputType |-> PropAbsent])

\* deleteWorkflowREST (DELETE /v1/api/workflows/:id)
deleteWorkflowREST(r) ==
    LET req == r.rest
    IN  IF req.id = EmptyStr THEN Fail(r, "id is required")
        ELSE callSemanticHandler(r,
                 [kind |-> "json", type |-> "DeleteAction", identifier |-> req.id,
                  object |-> [isNil |-> FALSE, Text |-> EmptyStr,
                              ContentUrl |-> RestS3URL(req.bucket, req.id),
                              EncodingFormat |-> ""],
                  outputFile |-> PropAbsent, outputType |-> PropAbsent])


\* ------------------------------------------------------------------------
\* The handlers after their external calls
\* ------------------------------------------------------------------------

\* result.ContentType == nil
NilContentType == "<nil>"

\* contentType := "application/json"; if result.ContentType != nil { ... }
ContentTypeOf(object) ==
    IF object.ContentType # NilContentType THEN object.ContentType ELSE DefaultFormat

\* outputType := "inline"; if ot, ok := Properties["outputType"].(string); ok { ... }
OutputTypeOf(prop) == IF prop.kind = "string" THEN prop.str ELSE "inline"

\* action.Result of handleSemanticStoreImpl; StoreResponse of handleStore
StoredResult(type, bucket, key, data, format) ==
    [Type |-> type, Format |-> format, Output |-> EmptyStr,
     Value |-> [contentUrl |-> ContentUrl(bucket, key),
                encodingFormat |-> format,
                contentSize |-> Len(data)]]

\* action.Result of handleSemanticRetrieveImpl when the data went to a file
FileResult(outputFile, data, contentType) ==
    [Type |-> "DigitalDocument", Format |-> contentType, Output |-> EmptyStr,
     Value |-> [contentUrl |-> outputFile,
                encodingFormat |-> contentType,
                contentSize |-> Len(data)]]

\* action.Result of handleSemanticRetrieveImpl when the data is returned
\* inline; FetchResponse of handleFetch
InlineResult(type, data, contentType) ==
    [Type |-> type, Format |-> contentType, Output |-> data,
     Value |-> [contentSize |-> Len(data)]]

\* the handlers after PutObject has returned without error
AfterPut(r, bucket) ==
    [r EXCEPT !.pc = "done",
              !.resp = Completed(StoredResult(
                           IF r.endpoint = "store" THEN "DataDownload"
                                                   ELSE "DigitalDocument",
                           bucket, r.key, r.data, r.format))]

\* OutputRoute where outputType "file" takes the default path although an
\* explicit outputFile is given: a variant the routing property has to reject
OutputRouteTypeFirst(identifier, outputFileProp, outputTypeProp) ==
    LET outputFile == AsString(outputFileProp)
        outputType == OutputTypeOf(outputTypeProp)
    IN  IF outputType = "file" THEN DefaultOutputFile(identifier)
        ELSE outputFile

\* the path the fetched data goes to, "" for an inline result; outputFile and
\* outputType are the two entries of action.Properties
OutputRoute(identifier, outputFileProp, outputTypeProp) ==
    LET outputFile == AsString(outputFileProp)
        outputType == OutputTypeOf(outputTypeProp)
    IN  IF outputFile # EmptyStr \/ outputType = "file"
        THEN IF outputFile = EmptyStr THEN DefaultOutputFile(identifier)
                                      ELSE outputFile
        ELSE EmptyStr

\* handleSemanticRetrieveImpl after GetObject and io.ReadAll have returned
\* without error: up to os.MkdirAll, or to the inline response
AfterGetSemantic(r, object) ==
    LET data == object.Body
        contentType == ContentTypeOf(object)
        outputFile == OutputRoute(r.body.identifier, r.body.outputFile,
                                  r.body.outputType)
    IN  IF outputFile # EmptyStr
        THEN [r EXCEPT !.pc = "mkdir", !.data = data, !.format = contentType,
                       !.outputFile = outputFile]
        ELSE [r EXCEPT !.pc = "done", !.data = data, !.format = contentType,
                       !.resp = Completed(InlineResult("Dataset", data, contentType))]

\* handleFetch after GetObject and io.ReadAll have returned without error
AfterGetFetch(r, object) ==
    LET data == object.Body
        contentType == ContentTypeOf(object)
    IN  [r EXCEPT !.pc = "done", !.data = data, !.format = contentType,
                  !.resp = Completed(InlineResult("FetchResponse", data, contentType))]

AfterGet(r, object) ==
    IF r.endpoint = "fetch" THEN AfterGetFetch(r, object)
                            ELSE AfterGetSemantic(r, object)

\* AfterWrite that also returns the data inline: a variant the
\* one-of-two property has to reject
AfterWriteWithOutput(r) ==
    [r EXCEPT !.pc = "done",
              !.resp = Completed([FileResult(r.outputFile, r.data, r.format)
                                     EXCEPT !.Output = r.data])]

\* handleSemanticRetrieveImpl after os.WriteFile has returned without error
AfterWrite(r) ==
    [r EXCEPT !.pc = "done",
              !.resp = Completed(FileResult(r.outputFile, r.data, r.format))]

\* ------------------------------------------------------------------------
\* Inputs
\* ------------------------------------------------------------------------

\* action.Identifier: "", "a", "c/a"
Identifiers == {EmptyStr, <<"a">>, <<"c", "/", "a">>}

\* the X-Workflow-ID header: absent, "w", "w/c"
Headers == {EmptyStr, <<"w">>, <<"w", "/", "c">>}

\* object.text: "", "p", "qq"
Texts == {EmptyStr, <<"p">>, <<"q", "q">>}

\* object.encodingFormat
EncodingFormats == {"", "text/plain"}

\* "http://x"
HttpUrl == <<"h", "t", "t", "p", ":", "/", "/", "x">>

\* "http://not-s3"
NotS3Url == <<"h", "t", "t", "p", ":", "/", "/", "n", "o", "t", "-", "s", "3">>

\* HETZNER_S3_BUCKET: unset, or "b"
BucketEnvs == {EmptyStr, <<"b">>}

\* a bucket that is not the configured one: "o"
OtherBucket == <<"o">>

\* "/out/f"
OutPath == <<"/", "o", "u", "t", "/", "f">>

\* @type of the actions the registry has no handler for
UnregisteredTypes == {"UpdateAction", "DeleteAction", "UnsupportedAction"}

StoreTypes == {t \in DOMAIN Registry : Registry[t] = "handleSemanticStore"}

RetrieveTypes == {t \in DOMAIN Registry : Registry[t] = "handleSemanticRetrieve"}

\* a JSON action
Action(type, identifier, object, outputFile, outputType) ==
    [kind |-> "json", type |-> type, identifier |-> identifier, object |-> object,
     outputFile |-> outputFile, outputType |-> outputType]

\* object of a store-like action
StoreObject(text, contentUrl, encodingFormat) ==
    [isNil |-> FALSE, Text |-> text, ContentUrl |-> contentUrl,
     EncodingFormat |-> encodingFormat]

\* object of a retrieve-like action
RetrieveObject(contentUrl) ==
    [isNil |-> FALSE, Text |-> EmptyStr, ContentUrl |-> contentUrl,
     EncodingFormat |-> ""]

\* the objects of store-like actions: none, or every combination of text,
\* contentUrl and encodingFormat
StoreObjects ==
    {NilObject} \cup
    {StoreObject(t, u, f) :
        t \in Texts, u \in {EmptyStr, HttpUrl}, f \in EncodingFormats}

\* the location a store under header n and identifier i returns
LocationOf(bucket, n, i) == ContentUrl(bucket, Key(WorkflowIDOf(n), i))

\* object.contentUrl of retrieve-like actions: malformed ones, locations in
\* another bucket, and the locations stores return
RetrieveUrls(bucket) ==
    {EmptyStr, NotS3Url, S3Scheme,
     S3Scheme \o <<"b">>,
     S3Scheme \o <<"b", "/">>,
     S3Scheme \o <<"/">>,
     S3Scheme \o <<"b", "/", "k">>,
     <<"S", "3", ":", "/", "/", "b", "/", "k">>,
     ContentUrl(OtherBucket, Key(DefaultWorkflowID, <<"a">>))}
    \cup {LocationOf(bucket, n, i) : n \in Headers, i \in Identifiers}

OutputFileProps == {PropAbsent, PropOther, PropString(EmptyStr), PropString(OutPath)}

OutputTypeProps == {PropAbsent, PropOther, PropString("file"), PropString("inline")}

\* the requests to POST /v1/api/semantic/action, body and X-Workflow-ID
\* header: bodies that do not parse; every action type with a storable and
\* with a retrievable object; stores under every identifier and header;
\* stores of every object; retrieves of every location, inline and to a
\* file; retrieves of a stored location under every identifier and every
\* combination of the output properties
SemanticRequests(bucket) ==
    {[body |-> RawBody(k), header |-> EmptyStr] : k \in {"invalid", "empty"}}
    \cup
    {[body |-> Action(t, <<"a">>, o, PropAbsent, PropAbsent), header |-> EmptyStr] :
        t \in DOMAIN Registry \cup UnregisteredTypes,
        o \in {StoreObject(<<"p">>, EmptyStr, ""),
               RetrieveObject(LocationOf(bucket, EmptyStr, <<"a">>))}}
    \cup
    {[body |-> Action("StoreAction", i, StoreObject(<<"p">>, EmptyStr, ""),
                      PropAbsent, PropAbsent),
      header |-> n] : i \in Identifiers, n \in Headers}
    \cup
    {[body |-> Action("StoreAction", i, o, PropAbsent, PropAbsent),
      header |-> EmptyStr] : i \in {EmptyStr, <<"a">>}, o \in StoreObjects}
    \cup
    {[body |-> Action("RetrieveAction", i, o, of, PropString("file")),
      header |-> EmptyStr] :
        i \in {EmptyStr, <<"a">>},
        o \in {NilObject} \cup {RetrieveObject(u) : u \in RetrieveUrls(bucket)},
        of \in {PropAbsent, PropString(OutPath)}}
    \cup
    {[body |-> Action("RetrieveAction", <<"a">>, RetrieveObject(u),
                      PropAbsent, PropAbsent),
      header |-> EmptyStr] : u \in RetrieveUrls(bucket)}
    \cup
    {[body |-> Action("RetrieveAction", i,
                      RetrieveObject(LocationOf(bucket, EmptyStr, <<"a">>)), of, ot),
      header |-> n] :
        i \in Identifiers, of \in OutputFileProps, ot \in OutputTypeProps,
        n \in {EmptyStr}}

\* the request bodies of POST /v1/api/store
StoreRequests ==
    {[WorkflowID |-> w, ActionID |-> i, Data |-> d, Format |-> f, key |-> EmptyStr] :
        w \in {EmptyStr, <<"w">>}, i \in {EmptyStr, <<"a">>},
        d \in {EmptyStr, <<"p">>}, f \in EncodingFormats}

\* the :key parameter of GET /v1/api/fetch/:key
FetchKeys ==
    {EmptyStr, <<"k">>, Key(DefaultWorkflowID, <<"a">>), Key(<<"w">>, <<"a">>)}
\* req.Definition of the REST bodies: absent, an empty map, a map of two
\* entries
Definitions ==
    {NilDefinition,
     [isNil |-> FALSE, entries |-> {}],
     [isNil |-> FALSE, entries |-> {<<"b", "2">>, <<"a", "1">>}]}

RestRequest(method, bound, id, definition, format, bucket, header) ==
    [rest |-> [method |-> method, bound |-> bound, id |-> id,
               definition |-> definition, format |-> format, bucket |-> bucket],
     header |-> header]

\* the requests to POST /v1/api/workflows
StoreWorkflowRequests ==
    {RestRequest("POST", TRUE, i, d, "", EmptyStr, EmptyStr) :
        i \in {EmptyStr, <<"a">>}, d \in Definitions}
    \cup {RestRequest("POST", FALSE, EmptyStr, NilDefinition, "", EmptyStr, EmptyStr),
          RestRequest("POST", TRUE, <<"a">>, [isNil |-> FALSE, entries |-> {}],
                      "text/plain", EmptyStr, EmptyStr),
          RestRequest("POST", TRUE, <<"a">>, [isNil |-> FALSE, entries |-> {}], "",
                      EmptyStr, <<"w">>)}

\* the requests to GET /v1/api/workflows/:id
GetWorkflowRequests ==
    {RestRequest("GET", TRUE, i, NilDefinition, "", b, EmptyStr) :
        i \in {EmptyStr, <<"a">>}, b \in {EmptyStr, <<"b">>, OtherBucket}}
    \cup {RestRequest("GET", TRUE, <<"a">>, NilDefinition, "", EmptyStr, <<"w">>)}

\* the requests to PUT /v1/api/workflows/:id
UpdateWorkflowRequests ==
    {RestRequest("PUT", TRUE, i, d, "", EmptyStr, EmptyStr) :
        i \in {EmptyStr, <<"a">>}, d \in Definitions}
    \cup {RestRequest("PUT", FALSE, <<"a">>, NilDefinition, "", EmptyStr, EmptyStr)}

\* the requests to DELETE /v1/api/workflows/:id
DeleteWorkflowRequests ==
    {RestRequest("DELETE", TRUE, i, NilDefinition, "", b, EmptyStr) :
        i \in {EmptyStr, <<"a">>}, b \in {EmptyStr, <<"b">>}}

\* ------------------------------------------------------------------------
\* Initial state and actions
\* ------------------------------------------------------------------------

\* f with the value v at x
Put(f, x, v) == [y \in DOMAIN f \cup {x} |-> IF y = x THEN v ELSE f[y]]

Init ==
    /\ bucketEnv \in BucketEnvs
    /\ s3Client = [x \in {} |-> x]
    /\ files = [x \in {} |-> x]
    /\ dirs = {<<"/">>, <<"/", "t", "m", "p">>}
    /\ reqs = [h \in Handlers |-> Idle]
    /\ located = [x \in {} |-> x]
    /\ served = 0

\* a request arrives at POST /v1/api/semantic/action
SemanticAction(h) ==
    /\ reqs[h].pc = "idle"
    /\ served < MaxRequests
    /\ \E q \in SemanticRequests(Bucket) :
          reqs' = [reqs EXCEPT ![h] =
                      handleSemanticAction(
                          NewRequest("semantic", q.body, q.header, NoLegacy))]
    /\ served' = served + 1
    /\ UNCHANGED <<bucketEnv, s3Client, files, dirs, located>>

\* a request arrives at POST /v1/api/store
LegacyStore(h) ==
    /\ reqs[h].pc = "idle"
    /\ served < MaxRequests
    /\ \E q \in StoreRequests :
          reqs' = [reqs EXCEPT ![h] =
                      handleStore(NewRequest("store", RawBody("none"), EmptyStr, q))]
    /\ served' = served + 1
    /\ UNCHANGED <<bucketEnv, s3Client, files, dirs, located>>

\* a request arrives at GET /v1/api/fetch/:key
LegacyFetch(h) ==
    /\ reqs[h].pc = "idle"
    /\ served < MaxRequests
    /\ \E k \in FetchKeys :
          reqs' = [reqs EXCEPT ![h] =
                      handleFetch(NewRequest("fetch", RawBody("none"), EmptyStr,
                                             [NoLegacy EXCEPT !.key = k]))]
    /\ served' = served + 1
    /\ UNCHANGED <<bucketEnv, s3Client, files, dirs, located>>

\* a request arrives at POST /v1/api/workflows
StoreWorkflow(h) ==
    /\ reqs[h].pc = "idle"
    /\ served < MaxRequests
    /\ \E q \in StoreWorkflowRequests :
          reqs' = [reqs EXCEPT ![h] =
                      storeWorkflowREST(
                          [NewRequest("rest", RawBody("none"), q.header, NoLegacy)
                              EXCEPT !.rest = q.rest])]
    /\ served' = served + 1
    /\ UNCHANGED <<bucketEnv, s3Client, files, dirs, located>>

\* a request arrives at GET /v1/api/workflows/:id
GetWorkflow(h) ==
    /\ reqs[h].pc = "idle"
    /\ served < MaxRequests
    /\ \E q \in GetWorkflowRequests :
          reqs' = [reqs EXCEPT ![h] =
                      getWorkflowREST(
                          [NewRequest("rest", RawBody("none"), q.header, NoLegacy)
                              EXCEPT !.rest = q.rest])]
    /\ served' = served + 1
    /\ UNCHANGED <<bucketEnv, s3Client, files, dirs, located>>

\* a request arrives at PUT /v1/api/workflows/:id
UpdateWorkflow(h) ==
    /\ reqs[h].pc = "idle"
    /\ served < MaxRequests
    /\ \E q \in UpdateWorkflowRequests :
          reqs' = [reqs EXCEPT ![h] =
                      updateWorkflowREST(
                          [NewRequest("rest", RawBody("none"), q.header, NoLegacy)
                              EXCEPT !.rest = q.rest])]
    /\ served' = served + 1
    /\ UNCHANGED <<bucketEnv, s3Client, files, dirs, located>>

\* a request arrives at DELETE /v1/api/workflows/:id
DeleteWorkflow(h) ==
    /\ reqs[h].pc = "idle"
    /\ served < MaxRequests
    /\ \E q \in DeleteWorkflowRequests :
          reqs' = [reqs EXCEPT ![h] =
                      deleteWorkflowREST(
                          [NewRequest("rest", RawBody("none"), q.header, NoLegacy)
                              EXCEPT !.rest = q.rest])]
    /\ served' = served + 1
    /\ UNCHANGED <<bucketEnv, s3Client, files, dirs, located>>

\* PutObject that leaves nothing in the bucket but the object it writes: a
\* variant the store frame property has to reject
PutObjectAlone(h) ==
    LET r == reqs[h]
        issued == [r EXCEPT !.puts = @ + 1]
        loc == <<r.bucket, r.key>>
        url == ContentUrl(r.bucket, r.key)
    IN  /\ r.pc = "put"
        /\ s3Client' = [x \in {loc} |->
                           [Body |-> r.data, ContentType |-> r.format]]
        /\ located' = Put(located, url,
                          [data |-> r.data, format |-> r.format, by |-> h,
                           prior |-> IF url \in DOMAIN located
                                     THEN [written |-> TRUE,
                                           data |-> located[url].data,
                                           format |-> located[url].format]
                                     ELSE [written |-> FALSE, data |-> EmptyStr,
                                           format |-> ""]])
        /\ reqs' = [reqs EXCEPT ![h] = AfterPut(issued, r.bucket)]
        /\ UNCHANGED <<bucketEnv, files, dirs, served>>

\* PutObject that is issued a second time when the first attempt reports an
\* error: a variant the one-put property has to reject
PutObjectRetry(h) ==
    LET r == reqs[h]
        issued == [r EXCEPT !.puts = @ + 1]
        object == [Body |-> r.data, ContentType |-> r.format]
        url == ContentUrl(r.bucket, r.key)
    IN  /\ r.pc = "put"
        /\ \/ /\ s3Client' = Put(s3Client, <<r.bucket, r.key>>, object)
              /\ located' = Put(located, url,
                                [data |-> r.data, format |-> r.format, by |-> h,
                                 prior |-> IF url \in DOMAIN located
                                           THEN [written |-> TRUE,
                                                 data |-> located[url].data,
                                                 format |-> located[url].format]
                                           ELSE [written |-> FALSE,
                                                 data |-> EmptyStr,
                                                 format |-> ""]])
              /\ reqs' = [reqs EXCEPT ![h] = AfterPut(issued, r.bucket)]
           \/ /\ r.puts = 0
              /\ UNCHANGED <<s3Client, located>>
              /\ reqs' = [reqs EXCEPT ![h] = issued]
           \/ /\ r.puts > 0
              /\ UNCHANGED <<s3Client, located>>
              /\ reqs' = [reqs EXCEPT ![h] =
                            FailWith(issued, "PutObject",
                                     IF r.endpoint = "store"
                                     THEN "failed to store data"
                                     ELSE "Failed to store data")]
        /\ UNCHANGED <<bucketEnv, files, dirs, served>>

\* PutObject that keeps the content type of the object it replaces: a variant
\* the last-write-wins property has to reject
PutObjectKeepContentType(h) ==
    LET r == reqs[h]
        issued == [r EXCEPT !.puts = @ + 1]
        loc == <<r.bucket, r.key>>
        url == ContentUrl(r.bucket, r.key)
    IN  /\ r.pc = "put"
        /\ s3Client' = Put(s3Client, loc,
                           [Body |-> r.data,
                            ContentType |-> IF loc \in DOMAIN s3Client
                                            THEN s3Client[loc].ContentType
                                            ELSE r.format])
        /\ located' = Put(located, url,
                          [data |-> r.data, format |-> r.format, by |-> h,
                           prior |-> IF url \in DOMAIN located
                                     THEN [written |-> TRUE,
                                           data |-> located[url].data,
                                           format |-> located[url].format]
                                     ELSE [written |-> FALSE, data |-> EmptyStr,
                                           format |-> ""]])
        /\ reqs' = [reqs EXCEPT ![h] = AfterPut(issued, r.bucket)]
        /\ UNCHANGED <<bucketEnv, files, dirs, served>>

\* PutObject that leaves an existing object in place and still reports no
\* error: a variant the overwrite property has to reject
PutObjectKeepFirst(h) ==
    LET r == reqs[h]
        issued == [r EXCEPT !.puts = @ + 1]
        loc == <<r.bucket, r.key>>
        url == ContentUrl(r.bucket, r.key)
    IN  /\ r.pc = "put"
        /\ s3Client' = IF loc \in DOMAIN s3Client THEN s3Client
                       ELSE Put(s3Client, loc,
                                [Body |-> r.data, ContentType |-> r.format])
        /\ located' = Put(located, url,
                          [data |-> r.data, format |-> r.format, by |-> h,
                           prior |-> IF url \in DOMAIN located
                                     THEN [written |-> TRUE,
                                           data |-> located[url].data,
                                           format |-> located[url].format]
                                     ELSE [written |-> FALSE, data |-> EmptyStr,
                                           format |-> ""]])
        /\ reqs' = [reqs EXCEPT ![h] = AfterPut(issued, r.bucket)]
        /\ UNCHANGED <<bucketEnv, files, dirs, served>>

\* s3Client.PutObject returns: the object is written and the call reports no
\* error; or the call reports an error, with the object written or not
PutObject(h) ==
    LET r == reqs[h]
        issued == [r EXCEPT !.puts = @ + 1]
        object == [Body |-> r.data, ContentType |-> r.format]
        written == Put(s3Client, <<r.bucket, r.key>>, object)
        url == ContentUrl(r.bucket, r.key)
        noted == Put(located, url,
                     [data |-> r.data, format |-> r.format, by |-> h,
                      prior |-> IF url \in DOMAIN located
                                THEN [written |-> TRUE,
                                      data |-> located[url].data,
                                      format |-> located[url].format]
                                ELSE [written |-> FALSE, data |-> EmptyStr,
                                      format |-> ""]])
    IN  /\ r.pc = "put"
        /\ \/ /\ s3Client' = written
              /\ located' = noted
              /\ reqs' = [reqs EXCEPT ![h] = AfterPut(issued, r.bucket)]
           \/ /\ s3Client' = written
              /\ located' = noted
              /\ reqs' = [reqs EXCEPT ![h] =
                            FailWith(issued, "PutObject",
                                     IF r.endpoint = "store"
                                     THEN "failed to store data"
                                     ELSE "Failed to store data")]
           \/ /\ UNCHANGED <<s3Client, located>>
              /\ reqs' = [reqs EXCEPT ![h] =
                            FailWith(issued, "PutObject",
                                     IF r.endpoint = "store"
                                     THEN "failed to store data"
                                     ELSE "Failed to store data")]
        /\ UNCHANGED <<bucketEnv, files, dirs, served>>

\* GetObject that takes the object out of the store as it reads it: a
\* variant the retrieve frame property has to reject
GetObjectConsuming(h) ==
    LET r == reqs[h]
        issued == [r EXCEPT !.gets = @ + 1]
        loc == <<r.bucket, r.key>>
    IN  /\ r.pc = "get"
        /\ \/ /\ loc \in DOMAIN s3Client
              /\ reqs' = [reqs EXCEPT ![h] = AfterGet(issued, s3Client[loc])]
              /\ s3Client' = [x \in DOMAIN s3Client \ {loc} |-> s3Client[x]]
           \/ /\ loc \notin DOMAIN s3Client
              /\ reqs' = [reqs EXCEPT ![h] =
                            FailWith(issued, "NoSuchKey", "data not found")]
              /\ UNCHANGED s3Client
        /\ UNCHANGED <<bucketEnv, files, dirs, located, served>>

\* GetObject that answers a missing key with an empty object: a variant the
\* not-found property has to reject
GetObjectEmptyForMissing(h) ==
    LET r == reqs[h]
        issued == [r EXCEPT !.gets = @ + 1]
        loc == <<r.bucket, r.key>>
    IN  /\ r.pc = "get"
        /\ reqs' = [reqs EXCEPT ![h] =
                      AfterGet(issued,
                               IF loc \in DOMAIN s3Client THEN s3Client[loc]
                               ELSE [Body |-> EmptyStr,
                                     ContentType |-> NilContentType])]
        /\ UNCHANGED <<bucketEnv, s3Client, files, dirs, located, served>>

\* s3Client.GetObject returns: the object and io.ReadAll reads its body; or
\* an error, for a key that holds no object or for a failed transport; or the
\* object and io.ReadAll fails
GetObject(h) ==
    LET r == reqs[h]
        issued == [r EXCEPT !.gets = @ + 1]
        loc == <<r.bucket, r.key>>
    IN  /\ r.pc = "get"
        /\ \/ /\ loc \in DOMAIN s3Client
              /\ reqs' = [reqs EXCEPT ![h] = AfterGet(issued, s3Client[loc])]
           \/ /\ loc \notin DOMAIN s3Client
              /\ reqs' = [reqs EXCEPT ![h] =
                            FailWith(issued, "NoSuchKey", "data not found")]
           \/ /\ loc \in DOMAIN s3Client
              /\ reqs' = [reqs EXCEPT ![h] =
                            FailWith(issued, "GetObject", "data not found")]
           \/ /\ loc \in DOMAIN s3Client
              /\ reqs' = [reqs EXCEPT ![h] =
                            FailWith(issued, "ReadAll", "failed to read data")]
        /\ UNCHANGED <<bucketEnv, s3Client, files, dirs, located, served>>

\* MkdirAll after whose failure the data is returned inline: a variant the
\* local-write property has to reject
MkdirAllFallBackInline(h) ==
    LET r == reqs[h]
        issued == [r EXCEPT !.mkdirs = @ + 1]
    IN  /\ r.pc = "mkdir"
        /\ \/ /\ dirs' = dirs \cup Ancestors(Dir(r.outputFile))
              /\ reqs' = [reqs EXCEPT ![h] = [issued EXCEPT !.pc = "write"]]
           \/ /\ UNCHANGED dirs
              /\ reqs' = [reqs EXCEPT ![h] =
                            [issued EXCEPT
                                !.pc = "done", !.err = "MkdirAll",
                                !.resp = Completed(InlineResult("Dataset", r.data,
                                                                r.format))]]
        /\ UNCHANGED <<bucketEnv, s3Client, files, located, served>>

\* os.MkdirAll(filepath.Dir(outputFile), 0755) returns
MkdirAll(h) ==
    LET r == reqs[h]
        issued == [r EXCEPT !.mkdirs = @ + 1]
    IN  /\ r.pc = "mkdir"
        /\ \/ /\ dirs' = dirs \cup Ancestors(Dir(r.outputFile))
              /\ reqs' = [reqs EXCEPT ![h] = [issued EXCEPT !.pc = "write"]]
           \/ /\ UNCHANGED dirs
              /\ reqs' = [reqs EXCEPT ![h] =
                            FailWith(issued, "MkdirAll",
                                     "Failed to create output directory")]
        /\ UNCHANGED <<bucketEnv, s3Client, files, located, served>>

\* WriteFile that reports no error after writing all but the last byte: a
\* variant the file-content property has to reject
WriteFileShort(h) ==
    LET r == reqs[h]
        issued == [r EXCEPT !.writes = @ + 1]
    IN  /\ r.pc = "write"
        /\ files' = Put(files, r.outputFile,
                        SubSeq(r.data, 1, Len(r.data) - 1))
        /\ reqs' = [reqs EXCEPT ![h] = AfterWrite(issued)]
        /\ UNCHANGED <<bucketEnv, s3Client, dirs, located, served>>

\* os.WriteFile(outputFile, data, 0644) returns: the file holds the data; or
\* an error, with the file untouched or created or truncated and left empty
WriteFile(h) ==
    LET r == reqs[h]
        issued == [r EXCEPT !.writes = @ + 1]
    IN  /\ r.pc = "write"
        /\ \/ /\ files' = Put(files, r.outputFile, r.data)
              /\ reqs' = [reqs EXCEPT ![h] = AfterWrite(issued)]
           \/ /\ UNCHANGED files
              /\ reqs' = [reqs EXCEPT ![h] =
                            FailWith(issued, "WriteFile",
                                     "Failed to write result to file")]
           \/ /\ files' = Put(files, r.outputFile, EmptyStr)
              /\ reqs' = [reqs EXCEPT ![h] =
                            FailWith(issued, "WriteFile",
                                     "Failed to write result to file")]
        /\ UNCHANGED <<bucketEnv, s3Client, dirs, located, served>>

\* the response has gone out; the handler is free for the next request
Respond(h) ==
    /\ reqs[h].pc = "done"
    /\ reqs' = [reqs EXCEPT ![h] = Idle]
    /\ UNCHANGED <<bucketEnv, s3Client, files, dirs, located, served>>

\* requests are served one at a time, by handler 1
Next ==
    \E h \in {1} :
        \/ SemanticAction(h)
        \/ LegacyStore(h)
        \/ LegacyFetch(h)
        \/ PutObject(h)
        \/ GetObject(h)
        \/ MkdirAll(h)
        \/ WriteFile(h)
        \/ Respond(h)

Spec == Init /\ [][Next]_vars

\* the requests of the concurrent specification: stores under one namespace
\* and identifier with two payloads and two formats, retrieves of their
\* location, inline and to a file, requests that are refused: a body
\* that does not parse, a type without a handler, a store without an
\* object, a retrieve of a location that is not an s3:// one, and two stores
\* whose namespace and identifier contain a "/"
ConcurrentRequests(bucket) ==
    {[body |-> Action("StoreAction", <<"c", "/", "a">>,
                      StoreObject(<<"p">>, EmptyStr, ""), PropAbsent, PropAbsent),
      header |-> <<"w">>],
     [body |-> Action("StoreAction", <<"a">>,
                      StoreObject(<<"q", "q">>, EmptyStr, ""), PropAbsent, PropAbsent),
      header |-> <<"w", "/", "c">>]}
    \cup
    {[body |-> RawBody("invalid"), header |-> EmptyStr],
     [body |-> Action("UnsupportedAction", <<"a">>,
                      StoreObject(<<"p">>, EmptyStr, ""), PropAbsent, PropAbsent),
      header |-> EmptyStr],
     [body |-> Action("StoreAction", <<"a">>, NilObject, PropAbsent, PropAbsent),
      header |-> EmptyStr],
     [body |-> Action("RetrieveAction", <<"a">>, RetrieveObject(NotS3Url),
                      PropAbsent, PropAbsent),
      header |-> EmptyStr]}
    \cup
    {[body |-> Action("StoreAction", <<"a">>, StoreObject(t, EmptyStr, f),
                      PropAbsent, PropAbsent),
      header |-> EmptyStr] : t \in {<<"p">>, <<"q", "q">>}, f \in EncodingFormats}
    \cup
    {[body |-> Action("RetrieveAction", <<"a">>,
                      RetrieveObject(LocationOf(bucket, EmptyStr, <<"a">>)),
                      PropAbsent, ot),
      header |-> EmptyStr] : ot \in {PropAbsent, PropString("file")}}

\* a request arrives at POST /v1/api/semantic/action while other requests
\* may be in service
ConcurrentSemanticAction(h) ==
    /\ reqs[h].pc = "idle"
    /\ served < MaxRequests
    /\ \E q \in ConcurrentRequests(Bucket) :
          reqs' = [reqs EXCEPT ![h] =
                      handleSemanticAction(
                          NewRequest("semantic", q.body, q.header, NoLegacy))]
    /\ served' = served + 1
    /\ UNCHANGED <<bucketEnv, s3Client, files, dirs, located>>

\* every request is served by a goroutine of its own: the steps of the
\* handlers interleave at their calls to the object store and the file system
NextConcurrent ==
    \E h \in Handlers :
        \/ ConcurrentSemanticAction(h)
        \/ PutObject(h)
        \/ GetObject(h)
        \/ MkdirAll(h)
        \/ WriteFile(h)
        \/ Respond(h)

SpecConcurrent == Init /\ [][NextConcurrent]_vars

\* the requests of the concurrent specification, served one at a time
NextSerial ==
    \E h \in {1} :
        \/ ConcurrentSemanticAction(h)
        \/ PutObject(h)
        \/ GetObject(h)
        \/ MkdirAll(h)
        \/ WriteFile(h)
        \/ Respond(h)

\* every call to the object store and to the file system returns: a handler
\* blocked in one of them goes on
SpecFair ==
    /\ Init /\ [][NextSerial]_vars
    /\ \A h \in {1} :
          /\ WF_vars(PutObject(h))
          /\ WF_vars(GetObject(h))
          /\ WF_vars(MkdirAll(h))
          /\ WF_vars(WriteFile(h))

\* the two objects an earlier run of the service has left in the bucket
StoredObjects ==
    {[n |-> EmptyStr, i |-> <<"a">>, data |-> <<"p">>, format |-> DefaultFormat],
     [n |-> <<"w">>, i |-> <<"a">>, data |-> <<"q", "q">>, format |-> "text/plain"]}

\* the service starts with a bucket that holds the objects of an earlier run
InitStored ==
    /\ bucketEnv \in BucketEnvs
    /\ s3Client = [loc \in {<<Bucket, Key(WorkflowIDOf(o.n), o.i)>> : o \in StoredObjects} |->
                      LET o == CHOOSE x \in StoredObjects :
                                   loc = <<Bucket, Key(WorkflowIDOf(x.n), x.i)>>
                      IN  [Body |-> o.data, ContentType |-> o.format]]
    /\ files = [x \in {} |-> x]
    /\ dirs = {<<"/">>, <<"/", "t", "m", "p">>}
    /\ reqs = [h \in Handlers |-> Idle]
    /\ located = [url \in {LocationOf(Bucket, o.n, o.i) : o \in StoredObjects} |->
                     LET o == CHOOSE x \in StoredObjects :
                                  url = LocationOf(Bucket, x.n, x.i)
                     IN  [data |-> o.data, format |-> o.format, by |-> 1,
                          prior |-> [written |-> FALSE, data |-> EmptyStr,
                                     format |-> ""]]]
    /\ served = 0

\* retrieves to a file, with the identifier "a": of the two stored objects
\* and of a location that holds none, to the default path and to an
\* explicit one
FileRetrieveRequests(bucket) ==
    {[body |-> Action("RetrieveAction", <<"a">>, RetrieveObject(u), of,
                      PropString("file")),
      header |-> EmptyStr] :
        u \in {LocationOf(bucket, EmptyStr, <<"a">>),
               LocationOf(bucket, <<"w">>, <<"a">>),
               LocationOf(bucket, EmptyStr, <<"c", "/", "a">>)},
        of \in {PropAbsent, PropString(OutPath)}}

\* a retrieve to a file arrives at POST /v1/api/semantic/action while other
\* requests may be in service
ConcurrentFileRetrieve(h) ==
    /\ reqs[h].pc = "idle"
    /\ served < MaxRequests
    /\ \E q \in FileRetrieveRequests(Bucket) :
          reqs' = [reqs EXCEPT ![h] =
                      handleSemanticAction(
                          NewRequest("semantic", q.body, q.header, NoLegacy))]
    /\ served' = served + 1
    /\ UNCHANGED <<bucketEnv, s3Client, files, dirs, located>>

\* retrieves to a file, each served by a goroutine of its own, over the one
\* file system of the host
NextRetrieveConcurrent ==
    \E h \in Handlers :
        \/ ConcurrentFileRetrieve(h)
        \/ GetObject(h)
        \/ MkdirAll(h)
        \/ WriteFile(h)
        \/ Respond(h)

SpecRetrieveConcurrent == InitStored /\ [][NextRetrieveConcurrent]_vars

\* the requests of a client of the REST endpoints, served one at a time; the
\* actions these endpoints build carry no output properties, so that no
\* retrieve of theirs is routed to a file
NextRest ==
    \E h \in {1} :
        \/ StoreWorkflow(h)
        \/ GetWorkflow(h)
        \/ UpdateWorkflow(h)
        \/ DeleteWorkflow(h)
        \/ PutObject(h)
        \/ GetObject(h)
        \/ Respond(h)

SpecRest == Init /\ [][NextRest]_vars


\* ------------------------------------------------------------------------
\* Properties
\* ------------------------------------------------------------------------

\* the request is a JSON action of one of the given types
IsAction(r, types) ==
    r.endpoint = "semantic" /\ r.body.kind = "json" /\ r.body.type \in types

IsStoreAction(r) == IsAction(r, {"UploadAction", "CreateAction", "StoreAction"})

IsRetrieveAction(r) == IsAction(r, {"DownloadAction", "RetrieveAction", "FetchAction"})

Succeeded(r) == r.pc = "done" /\ r.resp.status = "completed"

Rejected(r) == r.pc = "done" /\ r.resp.status = "failed"

\* the namespace and the identifier of a store request
NamespaceOf(r) ==
    IF r.endpoint = "store" THEN r.legacy.WorkflowID
    ELSE IF r.header = EmptyStr THEN <<"d", "e", "f", "a", "u", "l", "t">>
    ELSE r.header

IdentifierOf(r) ==
    IF r.endpoint = "store" THEN r.legacy.ActionID ELSE r.body.identifier

\* "workflow-results/{n}/{i}.json"
CanonicalKey(n, i) ==
    <<"w", "o", "r", "k", "f", "l", "o", "w", "-",
      "r", "e", "s", "u", "l", "t", "s", "/">>
    \o n \o <<"/">> \o i \o <<".", "j", "s", "o", "n">>

\* "s3://{bucket}/{key}"
CanonicalLocation(bucket, key) ==
    <<"s", "3", ":", "/", "/">> \o bucket \o <<"/">> \o key

\* C1: a store that succeeds with identifier i under namespace n has written
\* its data under the key workflow-results/{n}/{i}.json of the bucket, and
\* the location it returns is s3://{bucket}/workflow-results/{n}/{i}.json
C1_StoreKeyLayout ==
    \A h \in Handlers :
        LET r == reqs[h]
            key == CanonicalKey(NamespaceOf(r), IdentifierOf(r))
        IN  (IsStoreAction(r) \/ r.endpoint = "store") /\ Succeeded(r) =>
                /\ r.resp.result.Value.contentUrl = CanonicalLocation(Bucket, key)
                /\ <<Bucket, key>> \in DOMAIN s3Client
                /\ s3Client[<<Bucket, key>>].Body = r.data

\* C1 witness: a store with identifier "a" under the namespace "w" has succeeded
C1_Witness ==
    \E h \in Handlers :
        /\ IsStoreAction(reqs[h]) /\ Succeeded(reqs[h])
        /\ reqs[h].header = <<"w">>
        /\ reqs[h].body.identifier = <<"a">>

\* C2: a retrieve of a location that a store returned addresses the object
\* that store wrote, and when it succeeds its data and its format are the
\* payload and the format of the last write under that location
C2_RoundTrip ==
    \A h \in Handlers :
        LET r == reqs[h]
            url == r.body.object.ContentUrl
        IN  IsRetrieveAction(r) /\ url \in DOMAIN located =>
                /\ r.pc = "get" =>
                      /\ <<Bucket, r.key>> \in DOMAIN s3Client
                      /\ s3Client[<<Bucket, r.key>>].Body = located[url].data
                      /\ s3Client[<<Bucket, r.key>>].ContentType = located[url].format
                /\ Succeeded(r) =>
                      /\ r.data = located[url].data
                      /\ r.resp.result.Format = located[url].format
                      /\ r.resp.result.Value.contentSize = Len(located[url].data)
                      /\ "contentUrl" \notin DOMAIN r.resp.result.Value =>
                             r.resp.result.Output = located[url].data
                      /\ "contentUrl" \in DOMAIN r.resp.result.Value =>
                             /\ r.resp.result.Value.contentUrl \in DOMAIN files
                             /\ files[r.resp.result.Value.contentUrl] = located[url].data

\* C2 witness: a retrieve of a returned location has given back, inline, the
\* payload "qq" with the format text/plain
C2_Witness ==
    \E h \in Handlers :
        /\ IsRetrieveAction(reqs[h]) /\ Succeeded(reqs[h])
        /\ reqs[h].body.object.ContentUrl \in DOMAIN located
        /\ reqs[h].resp.result.Output = <<"q", "q">>
        /\ reqs[h].resp.result.Format = "text/plain"

\* C3: a retrieve that has issued its get for a key that holds no object has
\* failed with "data not found"; it has not succeeded with empty data and it
\* has touched no local directory or file
C3_NotFoundFails ==
    \A h \in Handlers :
        LET r == reqs[h]
        IN  /\ IsRetrieveAction(r) \/ r.endpoint = "fetch"
            /\ r.gets > 0
            /\ <<Bucket, r.key>> \notin DOMAIN s3Client
            => /\ Rejected(r)
               /\ r.resp.msg = "data not found"
               /\ r.resp.result = NoResult
               /\ r.mkdirs = 0 /\ r.writes = 0

\* C3 witness: a retrieve to a file has issued its get for a key that holds
\* no object
C3_Witness ==
    \E h \in Handlers :
        /\ IsRetrieveAction(reqs[h])
        /\ reqs[h].gets = 1
        /\ <<Bucket, reqs[h].key>> \notin DOMAIN s3Client
        /\ reqs[h].body.outputType = PropString("file")
        /\ Rejected(reqs[h])

\* C4: the result of a successful retrieve has exactly one of the inline
\* output and the file location (value.contentUrl)
C4_OneOfInlineOrFile ==
    \A h \in Handlers :
        LET r == reqs[h]
        IN  IsRetrieveAction(r) /\ Succeeded(r) =>
                ("contentUrl" \in DOMAIN r.resp.result.Value)
                    # (r.resp.result.Output # EmptyStr)

\* C4 witness: a retrieve with both outputFile and outputType "file" has
\* succeeded with a file location
C4_Witness ==
    \E h \in Handlers :
        /\ IsRetrieveAction(reqs[h]) /\ Succeeded(reqs[h])
        /\ reqs[h].body.outputFile.kind = "string"
        /\ reqs[h].body.outputType = PropString("file")
        /\ "contentUrl" \in DOMAIN reqs[h].resp.result.Value

\* the retrieve has its data: the get and the read of its body succeeded
Fetched(r) ==
    \/ r.pc \in {"mkdir", "write"}
    \/ Succeeded(r)
    \/ /\ Rejected(r)
       /\ r.resp.msg \in {"Failed to create output directory",
                          "Failed to write result to file"}

\* C5: once a retrieve has its data, a non-empty outputFile is the path it
\* writes to, whatever outputType says; without one, outputType "file" sends
\* the data to /tmp/{identifier}-result.dat; otherwise the data is returned
\* inline and no local directory or file is touched
C5_OutputRouting ==
    \A h \in Handlers :
        LET r == reqs[h]
            explicit == r.body.outputFile.kind = "string"
                        /\ r.body.outputFile.str # EmptyStr
            asFile == r.body.outputType.kind = "string"
                      /\ r.body.outputType.str = "file"
            default == <<"/", "t", "m", "p", "/">> \o r.body.identifier
                       \o <<"-", "r", "e", "s", "u", "l", "t", ".", "d", "a", "t">>
            path == IF explicit THEN r.body.outputFile.str ELSE default
        IN  IsRetrieveAction(r) /\ Fetched(r) =>
                IF explicit \/ asFile
                THEN /\ r.outputFile = path
                     /\ Succeeded(r) =>
                           /\ r.resp.result.Value.contentUrl = path
                           /\ r.resp.result.Output = EmptyStr
                           /\ path \in DOMAIN files
                ELSE /\ Succeeded(r)
                     /\ r.resp.result.Output = r.data
                     /\ "contentUrl" \notin DOMAIN r.resp.result.Value
                     /\ r.mkdirs = 0 /\ r.writes = 0

\* C5 witness: a retrieve with the explicit outputFile "/out/f" and
\* outputType "file" has succeeded and names "/out/f"
C5_Witness ==
    \E h \in Handlers :
        /\ IsRetrieveAction(reqs[h]) /\ Succeeded(reqs[h])
        /\ reqs[h].body.outputFile = PropString(<<"/", "o", "u", "t", "/", "f">>)
        /\ reqs[h].body.outputType = PropString("file")
        /\ reqs[h].resp.result.Value.contentUrl = <<"/", "o", "u", "t", "/", "f">>

C7_MissingIdentifierFails ==
    \A h \in Handlers :
        LET r == reqs[h]
        IN  /\ IsStoreAction(r) \/ IsRetrieveAction(r)
            /\ r.body.identifier = EmptyStr
            => /\ Rejected(r)
               /\ r.puts = 0 /\ r.gets = 0

\* C8: a store action with no object, or with an object that has neither
\* text nor contentUrl, is answered with a failure ("object is required",
\* "no data to store") and issues no put
C8_NoDataFails ==
    \A h \in Handlers :
        LET r == reqs[h]
        IN  /\ IsStoreAction(r)
            /\ \/ r.body.object.isNil
               \/ /\ r.body.object.Text = EmptyStr
                  /\ r.body.object.ContentUrl = EmptyStr
            => /\ Rejected(r)
               /\ r.resp.msg = IF r.body.object.isNil THEN "object is required"
                                                      ELSE "no data to store"
               /\ r.puts = 0

\* C8 witness: a store action whose object has an empty text and no
\* contentUrl has been answered
C8_Witness ==
    \E h \in Handlers :
        /\ IsStoreAction(reqs[h])
        /\ reqs[h].pc = "done"
        /\ ~ reqs[h].body.object.isNil
        /\ reqs[h].body.object.Text = EmptyStr
        /\ reqs[h].body.object.ContentUrl = EmptyStr

\* C9: a store action with an empty text and a contentUrl is answered with
\* the not-implemented failure and issues no put; with a text, the text is
\* what is stored whether or not there is a contentUrl
C9_ContentUrlNotImplemented ==
    \A h \in Handlers :
        LET r == reqs[h]
            object == r.body.object
        IN  IsStoreAction(r) /\ ~ object.isNil =>
                /\ object.Text = EmptyStr /\ object.ContentUrl # EmptyStr =>
                      /\ Rejected(r)
                      /\ r.resp.msg = "fetching from contentUrl not yet implemented"
                      /\ r.puts = 0
                /\ object.Text # EmptyStr =>
                      /\ r.pc \in {"put", "done"}
                      /\ r.data = object.Text
                      /\ r.pc = "done" => r.puts = 1
                      /\ Succeeded(r) =>
                            r.resp.result.Value.contentSize = Len(object.Text)

\* C9 witness: a store action with an empty text and a contentUrl has been
\* answered
C9_Witness ==
    \E h \in Handlers :
        /\ IsStoreAction(reqs[h])
        /\ reqs[h].pc = "done"
        /\ reqs[h].body.object.Text = EmptyStr
        /\ reqs[h].body.object.ContentUrl # EmptyStr

\* C10: a retrieve action with no object, an empty contentUrl or a
\* contentUrl that does not begin with "s3://" is answered with a failure
\* and issues no get and touches no local directory or file
C10_InvalidLocationFails ==
    \A h \in Handlers :
        LET r == reqs[h]
            url == r.body.object.ContentUrl
            beginsWithS3 == /\ Len(url) >= 5
                            /\ SubSeq(url, 1, 5) = <<"s", "3", ":", "/", "/">>
        IN  /\ IsRetrieveAction(r)
            /\ r.body.object.isNil \/ url = EmptyStr \/ ~ beginsWithS3
            => /\ Rejected(r)
               /\ r.resp.msg \in
                     {"object is required",
                      "object.contentUrl is required (resource s3:// location)",
                      "only s3:// URLs supported"}
               /\ r.gets = 0 /\ r.mkdirs = 0 /\ r.writes = 0

\* C10 witness: a retrieve of "http://not-s3" to a file has been answered
C10_Witness ==
    \E h \in Handlers :
        /\ IsRetrieveAction(reqs[h])
        /\ reqs[h].pc = "done"
        /\ reqs[h].body.outputType = PropString("file")
        /\ reqs[h].body.object.ContentUrl =
               <<"h", "t", "t", "p", ":", "/", "/", "n", "o", "t", "-", "s", "3">>

\* the location of a retrieve action, whether it begins with "s3://" and is
\* longer than that, and what follows the "s3://"
LocationRef(r) == r.body.object.ContentUrl

SchemeValid(url) ==
    Len(url) >= 6 /\ SubSeq(url, 1, 5) = <<"s", "3", ":", "/", "/">>

AfterScheme(url) == SubSeq(url, 6, Len(url))

\* the number of "/" of s, and what follows the first of them
SlashesOf(s) == Cardinality({i \in 1..Len(s) : s[i] = "/"})

AfterFirstSlash(s) ==
    LET i == CHOOSE j \in 1..Len(s) :
                 s[j] = "/" /\ \A k \in 1..(j - 1) : s[k] # "/"
    IN  SubSeq(s, i + 1, Len(s))

\* C11 as stated: a retrieve of an "s3://" location with fewer than two
\* segments after the bucket is answered with the invalid-location failure
\* and issues no get
C11_TwoSegmentsRequired ==
    \A h \in Handlers :
        LET r == reqs[h]
            url == LocationRef(r)
        IN  /\ IsRetrieveAction(r)
            /\ ~ r.body.object.isNil
            /\ SchemeValid(url)
            /\ SlashesOf(AfterScheme(url)) < 2
            => /\ Rejected(r)
               /\ r.resp.msg = "invalid s3 URL format"
               /\ r.gets = 0

\* C11: a retrieve of an "s3://" location with no segment after the bucket
\* is answered with the invalid-location failure and issues no get; with
\* one segment or more after the bucket, the get is issued once, and its
\* key is everything that follows the first "/" after the bucket, inner
\* separators kept
C11_OneSegmentRequired ==
    \A h \in Handlers :
        LET r == reqs[h]
            url == LocationRef(r)
            rest == AfterScheme(url)
        IN  /\ IsRetrieveAction(r)
            /\ ~ r.body.object.isNil
            /\ SchemeValid(url)
            => IF SlashesOf(rest) = 0
               THEN /\ Rejected(r)
                    /\ r.resp.msg = "invalid s3 URL format"
                    /\ r.gets = 0
               ELSE /\ r.pc # "idle"
                    /\ r.key = AfterFirstSlash(rest)
                    /\ r.gets = IF r.pc = "get" THEN 0 ELSE 1
                    /\ Rejected(r) => r.resp.msg # "invalid s3 URL format"

\* C11 witness: a retrieve of "s3://b/k", one segment after the bucket, has
\* issued its get and has been answered
C11_Witness ==
    \E h \in Handlers :
        /\ IsRetrieveAction(reqs[h])
        /\ reqs[h].pc = "done"
        /\ reqs[h].gets = 1
        /\ LocationRef(reqs[h]) = <<"s", "3", ":", "/", "/", "b", "/", "k">>

\* C12 as stated: a retrieve of "s3://" and a bucket alone is rejected, and
\* no retrieve issues a get with an empty key
C12_NoEmptyKeyGet ==
    \A h \in Handlers :
        LET r == reqs[h]
            url == LocationRef(r)
        IN  IsRetrieveAction(r) =>
                /\ /\ ~ r.body.object.isNil
                   /\ SchemeValid(url)
                   /\ SlashesOf(AfterScheme(url)) = 0
                   => Rejected(r) /\ r.gets = 0
                /\ r.pc = "get" \/ r.gets > 0 => r.key # EmptyStr

\* C13: a store that succeeds returns the location derived from its
\* namespace and identifier alone, and the object at the derived key is then
\* its payload with its format, whatever an earlier store had left there;
\* the one object the key holds is the last one put there, and a retrieve of
\* the location that succeeds yields that payload and format
C13_RestoreOverwrites ==
    /\ \A h \in Handlers :
          LET r == reqs[h]
              key == CanonicalKey(NamespaceOf(r), IdentifierOf(r))
              L == CanonicalLocation(Bucket, key)
          IN  IsStoreAction(r) /\ Succeeded(r) =>
                  /\ r.resp.result.Value.contentUrl = L
                  /\ L \in DOMAIN located
                  /\ located[L].data = r.data /\ located[L].format = r.format
                  /\ <<Bucket, key>> \in DOMAIN s3Client
                  /\ s3Client[<<Bucket, key>>] =
                         [Body |-> r.data, ContentType |-> r.format]
    /\ \A loc \in DOMAIN s3Client :
          LET L == CanonicalLocation(loc[1], loc[2])
          IN  /\ L \in DOMAIN located
              /\ s3Client[loc] = [Body |-> located[L].data,
                                  ContentType |-> located[L].format]
    /\ \A h \in Handlers :
          LET r == reqs[h]
              L == LocationRef(r)
          IN  IsRetrieveAction(r) /\ Succeeded(r) /\ L \in DOMAIN located =>
                  /\ r.data = located[L].data
                  /\ r.resp.result.Format = located[L].format
                  /\ located[L].prior.written /\ located[L].prior.data # located[L].data
                     => r.data # located[L].prior.data

\* C13 witness: a location stored twice, with different payloads and
\* different formats, has then been retrieved
C13_Witness ==
    \E h \in Handlers :
        LET r == reqs[h]
            L == LocationRef(r)
        IN  /\ IsRetrieveAction(r) /\ Succeeded(r)
            /\ L \in DOMAIN located
            /\ located[L].prior.written
            /\ located[L].prior.data # located[L].data
            /\ located[L].prior.format # located[L].format

\* C14: when two stores in service at the same time for one namespace and
\* identifier have both succeeded, they have returned the same location, the
\* object at the key is the payload together with the format of the one
\* whose put was applied last, and each was answered as if it were alone:
\* with its own size and format; a store that has issued its put fails only
\* when the put itself reports an error
C14_LastWriteWins ==
    /\ \A h1, h2 \in Handlers :
          LET r1 == reqs[h1]
              r2 == reqs[h2]
              key == CanonicalKey(NamespaceOf(r1), IdentifierOf(r1))
              L == CanonicalLocation(Bucket, key)
          IN  /\ h1 # h2
              /\ IsStoreAction(r1) /\ Succeeded(r1)
              /\ IsStoreAction(r2) /\ Succeeded(r2)
              /\ NamespaceOf(r1) = NamespaceOf(r2)
              /\ IdentifierOf(r1) = IdentifierOf(r2)
              => /\ r1.resp.result.Value.contentUrl = L
                 /\ r2.resp.result.Value.contentUrl = L
                 /\ L \in DOMAIN located
                 /\ located[L].by \in {h1, h2}
                 /\ s3Client[<<Bucket, key>>] =
                        [Body |-> reqs[located[L].by].data,
                         ContentType |-> reqs[located[L].by].format]
    /\ \A h \in Handlers :
          LET r == reqs[h]
          IN  IsStoreAction(r) =>
                  /\ Succeeded(r) =>
                        /\ r.puts = 1
                        /\ r.resp.result.Value.contentSize = Len(r.data)
                        /\ r.resp.result.Value.encodingFormat = r.format
                  /\ Rejected(r) /\ r.puts > 0 =>
                        r.err = "PutObject" /\ r.resp.msg = "Failed to store data"

\* C14 witness: two stores for one namespace and identifier, with different
\* payloads and different formats, have both succeeded and neither has been
\* answered yet; the put of the second handler was applied first
C14_Witness ==
    /\ IsStoreAction(reqs[1]) /\ Succeeded(reqs[1])
    /\ IsStoreAction(reqs[2]) /\ Succeeded(reqs[2])
    /\ reqs[1].key = reqs[2].key
    /\ reqs[1].data # reqs[2].data
    /\ reqs[1].format # reqs[2].format
    /\ located[reqs[1].resp.result.Value.contentUrl].by = 1
    /\ located[reqs[1].resp.result.Value.contentUrl].prior.written
    /\ located[reqs[1].resp.result.Value.contentUrl].prior.data = reqs[2].data

\* C15: a store issues at most one put; one that has succeeded has issued
\* exactly one; one that is refused while its action is decoded has issued
\* none; one whose put reports an error is answered with the storage-write
\* failure after that one put, without a result and without a location
C15_ExactlyOnePut ==
    \A h \in Handlers :
        LET r == reqs[h]
            decodeFailures == {"object is required",
                               "fetching from contentUrl not yet implemented",
                               "no data to store"}
        IN  IsStoreAction(r) =>
                /\ r.puts <= 1
                /\ r.gets = 0
                /\ r.pc = "put" => r.puts = 0
                /\ Succeeded(r) => r.puts = 1 /\ r.err = ""
                /\ Rejected(r) /\ r.resp.msg \in decodeFailures => r.puts = 0
                /\ Rejected(r) /\ r.resp.msg \notin decodeFailures =>
                      /\ r.puts = 1
                      /\ r.err = "PutObject"
                      /\ r.resp.msg = "Failed to store data"
                /\ r.err = "PutObject" =>
                      /\ Rejected(r)
                      /\ r.puts = 1
                      /\ r.resp.result = NoResult
                      /\ "contentUrl" \notin DOMAIN r.resp.result.Value

\* C15 witness: the put of a store has reported an error and the store has
\* been answered
C15_Witness ==
    \E h \in Handlers :
        /\ IsStoreAction(reqs[h])
        /\ reqs[h].pc = "done"
        /\ reqs[h].err = "PutObject"

\* a request to a REST endpoint
IsRest(r, method) == r.endpoint = "rest" /\ r.rest.method = method

\* C16 as stated: a PUT /v1/api/workflows/:id with an id and a definition,
\* and likewise an UpdateAction with an identifier and a text, once
\* answered, has succeeded and has left an object at
\* workflow-results/default/{id}.json, unless its put reported an error
C16_UpdateStores ==
    \A h \in Handlers :
        LET r == reqs[h]
            key == CanonicalKey(<<"d", "e", "f", "a", "u", "l", "t">>, r.body.identifier)
            asRest == /\ IsRest(r, "PUT") /\ r.rest.bound
                      /\ r.rest.id # EmptyStr /\ ~ r.rest.definition.isNil
            asAction == /\ r.endpoint = "semantic" /\ r.body.kind = "json"
                        /\ r.body.type = "UpdateAction"
                        /\ r.body.identifier # EmptyStr
                        /\ ~ r.body.object.isNil
                        /\ r.body.object.Text # EmptyStr
                        /\ r.header = EmptyStr
        IN  (asRest \/ asAction) /\ r.pc = "done" /\ r.err # "PutObject" =>
                /\ Succeeded(r)
                /\ <<Bucket, key>> \in DOMAIN s3Client
                /\ s3Client[<<Bucket, key>>].Body = r.body.object.Text

\* C17 as stated: a DELETE /v1/api/workflows/:id, and likewise a
\* DeleteAction, that names a location where an object has been put has,
\* once answered, succeeded, and the key holds no object any more
C17_DeleteRemoves ==
    \A h \in Handlers :
        LET r == reqs[h]
            key == CanonicalKey(<<"d", "e", "f", "a", "u", "l", "t">>, r.body.identifier)
            asRest == IsRest(r, "DELETE") /\ r.rest.id # EmptyStr
            asAction == /\ r.endpoint = "semantic" /\ r.body.kind = "json"
                        /\ r.body.type = "DeleteAction"
                        /\ ~ r.body.object.isNil
                        /\ LocationRef(r) = CanonicalLocation(Bucket, key)
        IN  /\ asRest \/ asAction
            /\ r.pc = "done"
            /\ CanonicalLocation(Bucket, key) \in DOMAIN located
            => /\ Succeeded(r)
               /\ <<Bucket, key>> \notin DOMAIN s3Client

\* the bucket a location names: what stands between "s3://" and the next "/"
BucketNamed(url) ==
    LET rest == AfterScheme(url)
        i == CHOOSE j \in 1..Len(rest) :
                 rest[j] = "/" /\ \A k \in 1..(j - 1) : rest[k] # "/"
    IN  SubSeq(rest, 1, i - 1)

\* C18 as stated: a retrieve that issues its get for the location s3://B/K
\* issues it against the bucket B and the key K; the get of a
\* GET /v1/api/workflows/:id with the query parameter bucket=B goes to B
C18_ReadsNamedBucket ==
    \A h \in Handlers :
        LET r == reqs[h]
            url == LocationRef(r)
        IN  /\ IsRetrieveAction(r) \/ IsRest(r, "GET")
            /\ r.pc = "get" \/ r.gets > 0
            => /\ r.bucket = BucketNamed(url)
               /\ r.key = AfterFirstSlash(AfterScheme(url))
               /\ IsRest(r, "GET") /\ r.rest.bucket # EmptyStr =>
                      r.bucket = r.rest.bucket

\* C19 as stated: a retrieve or a fetch whose get failed in transport, for a
\* key that holds an object, is not answered as one whose key holds no
\* object is: with "data not found"
C19_NotFoundDistinct ==
    \A h \in Handlers :
        LET r == reqs[h]
        IN  /\ r.pc = "done"
            /\ r.err = "GetObject"
            /\ <<r.bucket, r.key>> \in DOMAIN s3Client
            => r.resp # Failed("data not found")

\* C20: a retrieve routed to a file whose os.MkdirAll or os.WriteFile
\* reports an error is answered with the failure of that call and without
\* a result, after one get and no put; and while a retrieve is at one of
\* these two calls, no step changes the object store
C20_LocalWriteFails ==
    /\ [](\A h \in Handlers :
            LET r == reqs[h]
            IN  r.err \in {"MkdirAll", "WriteFile"} =>
                    /\ Rejected(r)
                    /\ r.resp.msg = IF r.err = "MkdirAll"
                                    THEN "Failed to create output directory"
                                    ELSE "Failed to write result to file"
                    /\ r.resp.result = NoResult
                    /\ r.gets = 1 /\ r.puts = 0
                    /\ r.mkdirs = 1
                    /\ r.writes = IF r.err = "MkdirAll" THEN 0 ELSE 1)
    /\ [][\A h \in Handlers :
             reqs[h].pc \in {"mkdir", "write"} /\ reqs'[h] # reqs[h] =>
                 s3Client' = s3Client]_vars

\* C20 witness: os.WriteFile has reported an error to a retrieve, which has
\* been answered
C20_Witness ==
    \E h \in Handlers :
        /\ IsRetrieveAction(reqs[h])
        /\ reqs[h].pc = "done"
        /\ reqs[h].err = "WriteFile"

\* the directory a path lies in: what stands before its last "/", and "/"
\* for a path directly under the root
ParentOf(path) ==
    LET i == CHOOSE j \in 1..Len(path) :
                 path[j] = "/" /\ \A k \in (j + 1)..Len(path) : path[k] # "/"
    IN  IF i = 1 THEN <<"/">> ELSE SubSeq(path, 1, i - 1)

\* s ends with t
EndsWith(s, t) ==
    Len(s) >= Len(t) /\ SubSeq(s, Len(s) - Len(t) + 1, Len(s)) = t

\* C21: when a retrieve served alone has succeeded with a file location, the
\* file at that location exists and holds exactly the bytes of the object
\* the get read, the size it reports is the length of those bytes, and the
\* directory of the file exists; with outputType "file" and no outputFile
\* the location ends in {identifier}-result.dat
C21_FileHoldsFetchedBytes ==
    \A h \in Handlers :
        LET r == reqs[h]
            path == r.resp.result.Value.contentUrl
            noPath == ~ (r.body.outputFile.kind = "string"
                         /\ r.body.outputFile.str # EmptyStr)
        IN  /\ IsRetrieveAction(r) /\ Succeeded(r)
            /\ "contentUrl" \in DOMAIN r.resp.result.Value
            => /\ path \in DOMAIN files
               /\ <<r.bucket, r.key>> \in DOMAIN s3Client
               /\ files[path] = s3Client[<<r.bucket, r.key>>].Body
               /\ r.resp.result.Value.contentSize = Len(files[path])
               /\ ParentOf(path) \in dirs
               /\ noPath =>
                     /\ r.body.outputType = PropString("file")
                     /\ EndsWith(path, r.body.identifier
                                       \o <<"-", "r", "e", "s", "u", "l", "t",
                                            ".", "d", "a", "t">>)

\* C21 witness: a retrieve with the identifier "c/a", outputType "file" and
\* no outputFile has succeeded with the location /tmp/c/a-result.dat
C21_Witness ==
    \E h \in Handlers :
        /\ IsRetrieveAction(reqs[h]) /\ Succeeded(reqs[h])
        /\ reqs[h].body.outputFile = PropAbsent
        /\ reqs[h].body.outputType = PropString("file")
        /\ "contentUrl" \in DOMAIN reqs[h].resp.result.Value
        /\ reqs[h].resp.result.Value.contentUrl =
               <<"/", "t", "m", "p", "/", "c", "/", "a", "-", "r", "e", "s",
                 "u", "l", "t", ".", "d", "a", "t">>

\* the steps a request may take from one position to the next
Successors(pc) ==
    CASE pc = "idle" -> {"put", "get", "done"}
      [] pc = "put" -> {"done"}
      [] pc = "get" -> {"mkdir", "done"}
      [] pc = "mkdir" -> {"write", "done"}
      [] pc = "write" -> {"done"}
      [] pc = "done" -> {"idle"}

\* the action of a request has been decoded and dispatched to a handler
Decoded(r) ==
    \/ r.endpoint \in {"store", "fetch"}
    \/ /\ r.endpoint \in {"semantic", "rest"}
       /\ r.body.kind = "json"
       /\ r.body.type \in {"UploadAction", "CreateAction", "StoreAction",
                            "DownloadAction", "RetrieveAction", "FetchAction"}
       /\ ~ r.body.object.isNil

\* C22: a request is at every moment received and not yet answered, at one
\* of its external calls, or answered; it has a response exactly when it is
\* answered, and that response is marked completed or failed; it is at a
\* call to the object store, or has made one, only if its action was
\* decoded and dispatched; it moves store-branch or retrieve-branch forward
\* only, an answered request changes no more until its handler is free
\* again; and every request received is eventually answered
C22_RequestStateMachine ==
    /\ [](\A h \in Handlers :
            LET r == reqs[h]
            IN  /\ r.pc \in {"idle", "put", "get", "mkdir", "write", "done"}
                /\ r.pc = "done" <=> r.resp.status \in {"completed", "failed"}
                /\ r.pc # "done" => r.resp = NoResponse
                /\ r.pc \in {"put", "get", "mkdir", "write"}
                      \/ r.puts + r.gets + r.mkdirs + r.writes > 0
                      => Decoded(r)
                /\ r.puts + r.gets <= 1
                /\ r.puts = 1 => r.gets = 0 /\ r.mkdirs = 0 /\ r.writes = 0)
    /\ [][\A h \in Handlers :
             reqs'[h] # reqs[h] =>
                 /\ reqs'[h].pc \in Successors(reqs[h].pc)
                 /\ reqs[h].pc = "done" => reqs'[h] = Idle]_vars
    /\ \A h \in Handlers :
          (reqs[h].pc \notin {"idle", "done"}) ~> (reqs[h].pc = "done")

\* C22 witness: a retrieve has gone through its get, its directory and its
\* file and has been answered with completed
C22_Witness ==
    \E h \in Handlers :
        /\ IsRetrieveAction(reqs[h]) /\ Succeeded(reqs[h])
        /\ reqs[h].gets = 1 /\ reqs[h].mkdirs = 1 /\ reqs[h].writes = 1

\* the store has derived its key
KeyDerived(r) == r.pc = "put" \/ r.puts > 0

\* C23 as stated: two stores in service with the same namespace and
\* identifier have derived the same key, and two with different pairs of
\* namespace and identifier have derived different keys
C23_KeyInjective ==
    \A h1, h2 \in Handlers :
        LET r1 == reqs[h1]
            r2 == reqs[h2]
            pair1 == <<NamespaceOf(r1), IdentifierOf(r1)>>
            pair2 == <<NamespaceOf(r2), IdentifierOf(r2)>>
        IN  /\ IsStoreAction(r1) /\ KeyDerived(r1)
            /\ IsStoreAction(r2) /\ KeyDerived(r2)
            => /\ pair1 = pair2 => r1.key = r2.key
               /\ pair1 # pair2 => r1.key # r2.key

\* C24: a store that has succeeded has written its text with the format its
\* object declares, "application/json" when it declares none, under the
\* namespace "default" when the request names none; its result carries that
\* format and the length of the text as its size
C24_StoreDefaults ==
    \A h \in Handlers :
        LET r == reqs[h]
            text == r.body.object.Text
            declared == r.body.object.EncodingFormat
            format == IF declared = "" THEN "application/json" ELSE declared
            namespace == IF r.header = EmptyStr
                         THEN <<"d", "e", "f", "a", "u", "l", "t">> ELSE r.header
            key == CanonicalKey(namespace, r.body.identifier)
        IN  IsStoreAction(r) /\ Succeeded(r) =>
                /\ <<Bucket, key>> \in DOMAIN s3Client
                /\ s3Client[<<Bucket, key>>] = [Body |-> text, ContentType |-> format]
                /\ r.resp.result.Value.encodingFormat = format
                /\ r.resp.result.Format = format
                /\ r.resp.result.Value.contentSize = Len(text)

\* C24 witness: a store of "qq" that declares no format and names no
\* namespace has succeeded
C24_Witness ==
    \E h \in Handlers :
        /\ IsStoreAction(reqs[h]) /\ Succeeded(reqs[h])
        /\ reqs[h].header = EmptyStr
        /\ reqs[h].body.object.EncodingFormat = ""
        /\ reqs[h].body.object.Text = <<"q", "q">>

\* C25: what a retrieve fetches is the object at the key of its location,
\* whatever its identifier: the key is what follows the bucket in the
\* location, the bytes, the format and the size are those of the object at
\* that key, a retrieve of a well-formed location fails only when one of its
\* external calls does, and the identifier shows in the output path only,
\* when no outputFile is given
C25_IdentifierNotRevalidated ==
    \A h \in Handlers :
        LET r == reqs[h]
            url == LocationRef(r)
            loc == <<Bucket, AfterFirstSlash(AfterScheme(url))>>
            explicit == r.body.outputFile.kind = "string"
                        /\ r.body.outputFile.str # EmptyStr
        IN  /\ IsRetrieveAction(r)
            /\ ~ r.body.object.isNil
            /\ SchemeValid(url) /\ SlashesOf(AfterScheme(url)) > 0
            => /\ r.key = loc[2]
               /\ Rejected(r) =>
                     r.err \in {"NoSuchKey", "GetObject", "ReadAll",
                                "MkdirAll", "WriteFile"}
               /\ Fetched(r) =>
                     /\ loc \in DOMAIN s3Client
                     /\ r.data = s3Client[loc].Body
                     /\ r.format = s3Client[loc].ContentType
                     /\ explicit => r.outputFile = r.body.outputFile.str
               /\ Succeeded(r) =>
                     /\ r.resp.result.Format = s3Client[loc].ContentType
                     /\ r.resp.result.Value.contentSize = Len(s3Client[loc].Body)
                     /\ "contentUrl" \notin DOMAIN r.resp.result.Value =>
                           r.resp.result.Output = s3Client[loc].Body

\* C25 witness: a retrieve with the identifier "c/a" of the location of the
\* object stored with the identifier "a" has succeeded
C25_Witness ==
    \E h \in Handlers :
        /\ IsRetrieveAction(reqs[h]) /\ Succeeded(reqs[h])
        /\ reqs[h].body.identifier = <<"c", "/", "a">>
        /\ LocationRef(reqs[h]) =
               CanonicalLocation(Bucket, CanonicalKey(<<"d", "e", "f", "a", "u", "l", "t">>,
                                                      <<"a">>))

\* C26: a retrieve issues its get only for a well-formed location and at
\* most once; it is at its directory or its file, or has been there, only
\* after its one get has returned the object; it creates the directory at
\* most once and before the file, writes the file at most once, and issues
\* no put; a failure of the directory or the file comes after the get has
\* returned the object
C26_RetrieveStepOrder ==
    \A h \in Handlers :
        LET r == reqs[h]
            url == LocationRef(r)
            loc == <<r.bucket, r.key>>
        IN  IsRetrieveAction(r) =>
                /\ r.gets <= 1 /\ r.mkdirs <= 1 /\ r.writes <= 1 /\ r.puts = 0
                /\ r.pc = "get" => r.gets = 0
                /\ r.pc = "get" \/ r.gets > 0 =>
                      /\ ~ r.body.object.isNil
                      /\ SchemeValid(url) /\ SlashesOf(AfterScheme(url)) > 0
                /\ r.pc \in {"mkdir", "write"} \/ r.mkdirs > 0 \/ r.writes > 0
                      \/ r.err \in {"MkdirAll", "WriteFile"}
                      => /\ r.gets = 1
                         /\ r.err \notin {"NoSuchKey", "GetObject", "ReadAll"}
                         /\ loc \in DOMAIN s3Client
                         /\ r.data = s3Client[loc].Body
                /\ r.pc = "mkdir" => r.mkdirs = 0 /\ r.writes = 0
                /\ r.pc = "write" => r.mkdirs = 1 /\ r.writes = 0
                /\ r.writes > 0 => r.mkdirs = 1
                /\ Succeeded(r) => r.gets = 1

\* C26 witness: os.MkdirAll has reported an error to a retrieve that had
\* fetched its object, and the retrieve has been answered
C26_Witness ==
    \E h \in Handlers :
        /\ IsRetrieveAction(reqs[h])
        /\ reqs[h].pc = "done"
        /\ reqs[h].err = "MkdirAll"
        /\ reqs[h].gets = 1

\* a retrieve, through the semantic endpoint or GET /v1/api/fetch/:key
IsRetrieval(r) == IsRetrieveAction(r) \/ r.endpoint = "fetch"

\* a store, through the semantic endpoint or POST /v1/api/store
IsStorage(r) == IsStoreAction(r) \/ r.endpoint = "store"

\* C27: no step of a retrieve or of a fetch, from its arrival to its
\* response, whatever its outcome, changes the object store: the keys, the
\* bytes and the content types stay as they are
C27_RetrieveFrame ==
    [][\A h \in Handlers :
          /\ reqs'[h] # reqs[h]
          /\ IsRetrieval(reqs[h]) \/ IsRetrieval(reqs'[h])
          => s3Client' = s3Client]_vars

\* C27 witness: a fetch has succeeded and the object it read is in the
\* store as it was
C27_Witness ==
    \E h \in Handlers :
        /\ reqs[h].endpoint = "fetch" /\ Succeeded(reqs[h])
        /\ <<reqs[h].bucket, reqs[h].key>> \in DOMAIN s3Client
        /\ s3Client[<<reqs[h].bucket, reqs[h].key>>].Body = reqs[h].data
        /\ reqs[h].data # EmptyStr

\* C28: a step of a store changes no object but the one at the key derived
\* from its namespace and identifier in the configured bucket, and removes
\* none; a store answered with a failure that is not that of its put has
\* issued no put, and its steps have changed no object at all
C28_StoreFrame ==
    /\ [](\A h \in Handlers :
            IsStorage(reqs[h]) /\ Rejected(reqs[h]) /\ reqs[h].err # "PutObject"
                => reqs[h].puts = 0)
    /\ [][\A h \in Handlers :
             LET r == IF reqs[h].pc = "idle" THEN reqs'[h] ELSE reqs[h]
                 own == <<Bucket, CanonicalKey(NamespaceOf(r), IdentifierOf(r))>>
             IN  reqs'[h] # reqs[h] /\ IsStorage(r) =>
                     /\ \A loc \in DOMAIN s3Client \ {own} :
                           /\ loc \in DOMAIN s3Client'
                           /\ s3Client'[loc] = s3Client[loc]
                     /\ DOMAIN s3Client \subseteq DOMAIN s3Client'
                     /\ DOMAIN s3Client' \subseteq DOMAIN s3Client \cup {own}
                     /\ reqs[h].pc # "put" => s3Client' = s3Client]_vars

\* C28 witness: a store has succeeded while the bucket holds an object under
\* another key
C28_Witness ==
    \E h \in Handlers :
        /\ IsStorage(reqs[h]) /\ Succeeded(reqs[h])
        /\ \E loc \in DOMAIN s3Client : loc # <<reqs[h].bucket, reqs[h].key>>

\* C29 as stated: the key a POST /v1/api/workflows with the id i writes is
\* the key a GET /v1/api/workflows/i reads, workflow-results/default/{i}.json
\* of the configured bucket, whatever the headers of the two requests: once
\* the POST has succeeded, that key holds the JSON of its definition, and a
\* GET that has succeeded returns the object at that key
C29_RestRoundTrip ==
    \A h \in Handlers :
        LET r == reqs[h]
            read == <<Bucket, CanonicalKey(<<"d", "e", "f", "a", "u", "l", "t">>,
                                           r.rest.id)>>
        IN  /\ IsRest(r, "POST") /\ Succeeded(r) =>
                  /\ <<r.bucket, r.key>> = read
                  /\ read \in DOMAIN s3Client
                  /\ s3Client[read].Body = r.body.object.Text
            /\ IsRest(r, "GET") /\ Succeeded(r) =>
                  /\ <<r.bucket, r.key>> = read
                  /\ r.resp.result.Output = s3Client[read].Body

\* C30 as stated: a retrieve that has succeeded with a file location, while
\* another retrieve of another object to the same path is in service, names
\* a file that holds the bytes it fetched itself, of the size it reports
C30_FileOfItsOwn ==
    \A h \in Handlers :
        LET r == reqs[h]
            path == r.resp.result.Value.contentUrl
        IN  /\ IsRetrieveAction(r) /\ Succeeded(r)
            /\ "contentUrl" \in DOMAIN r.resp.result.Value
            /\ \E g \in Handlers \ {h} :
                  /\ IsRetrieveAction(reqs[g])
                  /\ reqs[g].outputFile = path
                  /\ reqs[g].key # r.key
            => /\ path \in DOMAIN files
               /\ files[path] = r.data
               /\ Len(files[path]) = r.resp.result.Value.contentSize

====
